---- MODULE Spec2Model ----
(***************************************************************************)
(* Model of Sqrat::Bytecode (include/sqrat/sqratBytecode.h): a byte buffer *)
(* with a sequential read cursor, file save/load, and the heap block it    *)
(* owns.  size_t and SQInteger are W bits wide; the heap block that m_data *)
(* points at is tracked together with whether it is still allocated, so    *)
(* that a dangling m_data, a double free and an out-of-bounds copy are     *)
(* visible.  An operation that runs into undefined behaviour either stops  *)
(* the process (halted) or goes on with indeterminate bytes (Indet).       *)
(***************************************************************************)
EXTENDS Integers, Sequences, FiniteSets, TLC

\* ---- bounds -------------------------------------------------------------
MaxLen == 2          \* longest content / file / argument, in bytes
W == 3               \* width in bits of size_t and SQInteger in the model

Byte == {0, 1}       \* byte values that callers and files supply
Indet == -1          \* a byte whose value is indeterminate

SizeMod == 2^W       \* size_t arithmetic is modulo 2^W
NULL == 0
PTR == 1             \* any non-null value of m_data

SQ_OK == 0
SQ_ERROR == -1
NoRet == -1000       \* the call did not return (the process stopped)

Paths == {"f", "bad"}    \* "f": an ordinary path; "bad": a path fopen always refuses

VARIABLES
    m_data,      \* NULL or PTR
    m_size,      \* 0 .. SizeMod-1
    m_readpos,   \* 0 .. SizeMod-1
    heap,        \* bytes of the block m_data points at (<<>> when none)
    heap_live,   \* TRUE while that block is allocated
    alive,       \* the Bytecode object exists
    halted,      \* the process stopped inside an operation
    file,        \* the file at path "f": [exists, bytes]
    op,          \* the last operation
    arg,         \* its arguments: [S, n, path]
    ret,         \* its return value
    dest,        \* bytes it copied to the caller's destination
    io,          \* its file I/O: [opened, xfer]
    ub,          \* the undefined behaviour it ran into, "none" if none
    drain,       \* history: the reads since the last SetData
    trip,        \* history: progress of an append / save / reload round trip
    fifo,        \* history: bytes appended and bytes read since construction
    call         \* the adapter the last operation was called through, if any

buffer == <<m_data, m_size, m_readpos, heap, heap_live>>
vars == <<m_data, m_size, m_readpos, heap, heap_live, alive, halted, file,
          op, arg, ret, dest, io, ub, drain, trip, fifo, call>>

\* ---- helpers ------------------------------------------------------------
SeqsUpTo(S, n) == UNION {[1..k -> S] : k \in 0..n}

Take(s, k) == SubSeq(s, 1, k)

Fill(k) == [i \in 1..k |-> Indet]

Min(a, b) == IF a <= b THEN a ELSE b

\* static_cast<SQInteger>(size_t): reinterpretation in two's complement
ToSigned(x) == IF x >= SizeMod \div 2 THEN x - SizeMod ELSE x

\* bytes block[off+1 .. off+k] as memcpy/fwrite read them; a byte outside the
\* block, or of a freed block, is indeterminate
Peek(block, live, off, k) ==
    [i \in 1..k |-> IF live /\ off + i <= Len(block) THEN block[off + i] ELSE Indet]

\* block after memcpy(block + off, S, Len(S)); bytes that fall outside are lost
Poke(block, off, S) ==
    [i \in 1..Len(block) |->
        IF i > off /\ i <= off + Len(S) THEN S[i - off] ELSE block[i]]

NoArg == [S |-> <<>>, n |-> 0, path |-> ""]
NoIO == [opened |-> FALSE, xfer |-> 0]

\* what malloc(n) / realloc(p, n) may return: a zero-size request may give NULL
AllocResults(n) == IF n = 0 THEN {NULL, PTR} ELSE {PTR}

\* the process stops inside `o`
Crash(o, a, kind) ==
    /\ halted' = TRUE
    /\ op' = o /\ arg' = a /\ ub' = kind
    /\ ret' = NoRet /\ dest' = <<>> /\ io' = NoIO
    /\ UNCHANGED <<buffer, alive, file>>

\* an operation that hit undefined behaviour `kind` may stop or go on
Outcomes(kind) == IF kind = "none" THEN {FALSE} ELSE {FALSE, TRUE}

\* free(m_data) when m_data is set: a double free if the block is already freed
FreeKind == IF m_data # NULL /\ ~heap_live THEN "double_free" ELSE "none"

\* the file system before the program runs: no file, or a file some other
\* program wrote (an empty file comes about when fwrite writes nothing)
InitFiles ==
    {[exists |-> FALSE, bytes |-> <<>>], [exists |-> TRUE, bytes |-> <<1>>]}

NoDrain == [active |-> FALSE, S |-> <<>>, out |-> <<>>, calls |-> 0,
            exhausted |-> FALSE]
NoTrip == [stage |-> 0, S |-> <<>>]
NoFifo == [active |-> FALSE, in |-> <<>>, out |-> <<>>]
NoCall == [f |-> "", size |-> 0, S |-> <<>>, ret |-> 0]

\* ---- state after construction --------------------------------------------
Init ==
    /\ m_data = NULL /\ m_size = 0 /\ m_readpos = 0
    /\ heap = <<>> /\ heap_live = FALSE
    /\ alive = TRUE /\ halted = FALSE
    /\ file \in InitFiles
    /\ op = "Bytecode" /\ arg = NoArg /\ ret = SQ_OK /\ dest = <<>>
    /\ io = NoIO /\ ub = "none"
    /\ drain = NoDrain /\ trip = NoTrip
    /\ fifo = [NoFifo EXCEPT !.active = TRUE] /\ call = NoCall

Size == m_size

Data == m_data

\* ---- ReadData -----------------------------------------------------------
ReadNoData == m_data = NULL \/ m_size = 0 \/ m_readpos = m_size

BytesToRead(n) ==
    IF (m_readpos + n) % SizeMod <= m_size
    THEN n
    ELSE (m_size - m_readpos + SizeMod) % SizeMod

\* what the memcpy of bytes_to_read bytes from m_data + m_readpos runs into
ReadKind(n) ==
    IF BytesToRead(n) = 0 THEN "none"
    ELSE IF ~heap_live THEN "use_after_free"
    ELSE IF m_readpos + BytesToRead(n) > Len(heap) \/ BytesToRead(n) > n
         THEN "out_of_bounds"
         ELSE "none"

ReadData(n) ==
    /\ alive /\ ~halted
    /\ LET a == [NoArg EXCEPT !.n = n] IN
       IF ReadNoData
       THEN /\ op' = "ReadData" /\ arg' = a /\ ret' = -1 /\ dest' = <<>>
            /\ io' = NoIO /\ ub' = "none"
            /\ UNCHANGED <<buffer, alive, halted, file>>
       ELSE \E h \in Outcomes(ReadKind(n)) :
              IF h THEN Crash("ReadData", a, ReadKind(n))
              ELSE /\ dest' = Peek(heap, heap_live, m_readpos, BytesToRead(n))
                   /\ m_readpos' = (m_readpos + BytesToRead(n)) % SizeMod
                   /\ ret' = ToSigned(BytesToRead(n))
                   /\ op' = "ReadData" /\ arg' = a /\ io' = NoIO
                   /\ ub' = ReadKind(n)
                   /\ UNCHANGED <<m_data, m_size, heap, heap_live, alive, halted, file>>

\* ---- SetData ------------------------------------------------------------
SetData(S) ==
    /\ alive /\ ~halted
    /\ LET a == [NoArg EXCEPT !.S = S] IN
       \E h \in Outcomes(FreeKind) :
         IF h THEN Crash("SetData", a, FreeKind)
         ELSE \E p \in AllocResults(Len(S)) :
                /\ m_data' = p
                /\ heap' = S
                /\ heap_live' = (p # NULL)
                /\ m_size' = Len(S)
                /\ m_readpos' = 0
                /\ ret' = SQ_OK
                /\ op' = "SetData" /\ arg' = a /\ dest' = <<>> /\ io' = NoIO
                /\ ub' = FreeKind
                /\ UNCHANGED <<alive, halted, file>>

\* ---- AppendData ---------------------------------------------------------
\* realloc(m_data, n) of a freed block is a use after free
AppendKind == IF m_data # NULL /\ ~heap_live THEN "use_after_free" ELSE "none"

\* the block malloc(size) or realloc(m_data, m_size + size) hands back, before
\* the memcpy: realloc keeps the old bytes that fit, the rest is uninitialised
GrownBlock(size) ==
    IF m_data = NULL
    THEN Fill(size)
    ELSE LET n == (m_size + size) % SizeMod
         IN  Peek(heap, heap_live, 0, Min(n, Len(heap))) \o Fill(n - Min(n, Len(heap)))

\* AppendData as it would be with SetData's cursor reset (line 140) in it
AppendDataRewinds(S) ==
    /\ alive /\ ~halted
    /\ m_size + Len(S) <= MaxLen
    /\ LET a == [NoArg EXCEPT !.S = S] IN
       \E h \in Outcomes(AppendKind) :
         IF h THEN Crash("AppendData", a, AppendKind)
         ELSE \E p \in AllocResults(Len(GrownBlock(Len(S)))) :
                /\ m_data' = p
                /\ heap' = Poke(GrownBlock(Len(S)), m_size, S)
                /\ heap_live' = (p # NULL)
                /\ m_size' = (m_size + Len(S)) % SizeMod
                /\ m_readpos' = 0
                /\ ret' = ToSigned(Len(S))
                /\ op' = "AppendData" /\ arg' = a /\ dest' = <<>> /\ io' = NoIO
                /\ ub' = AppendKind
                /\ UNCHANGED <<alive, halted, file>>

AppendData(S) ==
    /\ alive /\ ~halted
    /\ m_size + Len(S) <= MaxLen
    /\ LET a == [NoArg EXCEPT !.S = S] IN
       \E h \in Outcomes(AppendKind) :
         IF h THEN Crash("AppendData", a, AppendKind)
         ELSE \E p \in AllocResults(Len(GrownBlock(Len(S)))) :
                /\ m_data' = p
                /\ heap' = Poke(GrownBlock(Len(S)), m_size, S)
                /\ heap_live' = (p # NULL)
                /\ m_size' = (m_size + Len(S)) % SizeMod
                /\ ret' = ToSigned(Len(S))
                /\ op' = "AppendData" /\ arg' = a /\ dest' = <<>> /\ io' = NoIO
                /\ ub' = AppendKind
                /\ UNCHANGED <<m_readpos, alive, halted, file>>

\* ---- files --------------------------------------------------------------
CanOpenRead(path) == path = "f" /\ file.exists

CanOpenWrite(path) == path = "f"

\* ---- SaveToFile ---------------------------------------------------------
SaveRefused == m_data = NULL \/ m_size <= 0

SaveKind == IF ~heap_live THEN "use_after_free"
            ELSE IF m_size > Len(heap) THEN "out_of_bounds" ELSE "none"

SaveResultAlwaysOk(bytes_written) == SQ_OK

SaveResult(bytes_written) == IF bytes_written = m_size THEN SQ_OK ELSE SQ_ERROR

\* SaveToFile as it would be if writing the content consumed it
SaveToFileConsumes(path) ==
    /\ alive /\ ~halted
    /\ LET a == [NoArg EXCEPT !.path = path] IN
       IF SaveRefused \/ ~CanOpenWrite(path)
       THEN /\ ret' = SQ_ERROR
            /\ op' = "SaveToFile" /\ arg' = a /\ dest' = <<>> /\ io' = NoIO
            /\ ub' = "none"
            /\ UNCHANGED <<buffer, alive, halted, file>>
       ELSE \E h \in Outcomes(SaveKind) :
              IF h THEN Crash("SaveToFile", a, SaveKind)
              ELSE \E bytes_written \in 0..m_size :
                     /\ file' = [exists |-> TRUE,
                                 bytes |-> Peek(heap, heap_live, 0, bytes_written)]
                     /\ ret' = SaveResult(bytes_written)
                     /\ io' = [opened |-> TRUE, xfer |-> bytes_written]
                     /\ op' = "SaveToFile" /\ arg' = a /\ dest' = <<>>
                     /\ ub' = SaveKind
                     /\ m_readpos' = bytes_written
                     /\ UNCHANGED <<m_data, m_size, heap, heap_live, alive, halted>>

SaveToFile(path) ==
    /\ alive /\ ~halted
    /\ LET a == [NoArg EXCEPT !.path = path] IN
       IF SaveRefused \/ ~CanOpenWrite(path)
       THEN /\ ret' = SQ_ERROR
            /\ op' = "SaveToFile" /\ arg' = a /\ dest' = <<>> /\ io' = NoIO
            /\ ub' = "none"
            /\ UNCHANGED <<buffer, alive, halted, file>>
       ELSE \E h \in Outcomes(SaveKind) :
              IF h THEN Crash("SaveToFile", a, SaveKind)
              ELSE \E bytes_written \in 0..m_size :
                     /\ file' = [exists |-> TRUE,
                                 bytes |-> Peek(heap, heap_live, 0, bytes_written)]
                     /\ ret' = SaveResult(bytes_written)
                     /\ io' = [opened |-> TRUE, xfer |-> bytes_written]
                     /\ op' = "SaveToFile" /\ arg' = a /\ dest' = <<>>
                     /\ ub' = SaveKind
                     /\ UNCHANGED <<buffer, alive, halted>>

\* ---- LoadFromFile -------------------------------------------------------
\* the block after malloc(fsize) and an fread that delivered bytes_read bytes
LoadedOneShort(bytes_read, fsize) ==
    Take(file.bytes, Min(bytes_read, fsize - 1))
        \o Fill(fsize - Min(bytes_read, fsize - 1))

Loaded(bytes_read, fsize) ==
    Take(file.bytes, bytes_read) \o Fill(fsize - bytes_read)

LoadResultAlwaysOk(bytes_read, size) == SQ_OK

LoadResult(bytes_read, size) == IF bytes_read = size THEN SQ_OK ELSE SQ_ERROR

LoadFromFile(path) ==
    /\ alive /\ ~halted
    /\ LET a == [NoArg EXCEPT !.path = path]
           fsize == Len(file.bytes)
       IN
       \E h \in Outcomes(FreeKind) :
         IF h THEN Crash("LoadFromFile", a, FreeKind)
         ELSE /\ op' = "LoadFromFile" /\ arg' = a /\ dest' = <<>>
              /\ ub' = FreeKind
              /\ UNCHANGED <<m_readpos, alive, halted, file>>
              /\ IF ~CanOpenRead(path) \/ fsize = 0
                 THEN \* the early free is all that happened to the buffer
                      /\ heap' = <<>>
                      /\ heap_live' = FALSE
                      /\ ret' = SQ_ERROR
                      /\ io' = [opened |-> CanOpenRead(path), xfer |-> 0]
                      /\ UNCHANGED <<m_data, m_size>>
                 ELSE \E bytes_read \in 0..fsize :
                        /\ m_size' = fsize
                        /\ m_data' = PTR
                        /\ heap' = Loaded(bytes_read, fsize)
                        /\ heap_live' = TRUE
                        /\ ret' = LoadResult(bytes_read, fsize)
                        /\ io' = [opened |-> TRUE, xfer |-> bytes_read]

\* ---- destructor and constructor -----------------------------------------
Destroy ==
    /\ alive /\ ~halted
    /\ \E h \in Outcomes(FreeKind) :
         IF h THEN Crash("~Bytecode", NoArg, FreeKind)
         ELSE /\ alive' = FALSE
              /\ heap' = <<>> /\ heap_live' = FALSE
              /\ op' = "~Bytecode" /\ arg' = NoArg /\ ret' = SQ_OK /\ dest' = <<>>
              /\ io' = NoIO /\ ub' = FreeKind
              /\ UNCHANGED <<m_data, m_size, m_readpos, halted, file>>

Construct ==
    /\ ~alive /\ ~halted
    /\ m_data' = NULL /\ m_size' = 0 /\ m_readpos' = 0
    /\ heap' = <<>> /\ heap_live' = FALSE
    /\ alive' = TRUE
    /\ op' = "Bytecode" /\ arg' = NoArg /\ ret' = SQ_OK /\ dest' = <<>>
    /\ io' = NoIO /\ ub' = "none"
    /\ UNCHANGED <<halted, file>>

\* ---- history ------------------------------------------------------------
\* drain: S of the last successful SetData of a non-empty S, the bytes and the
\* number of the ReadData calls of positive size that returned data since, and
\* whether all of S had come out before the last of them; any other operation
\* ends the record, and so does a read once more bytes came out than went in.
DrainNext ==
    IF op' = "SetData" /\ ~halted' /\ arg'.S # <<>>
    THEN [active |-> TRUE, S |-> arg'.S, out |-> <<>>, calls |-> 0,
          exhausted |-> FALSE]
    ELSE IF op' = "ReadData" /\ drain.active /\ arg'.n > 0
              /\ Len(drain.out) <= Len(drain.S)
         THEN IF ret' = -1 \/ halted'
              THEN [drain EXCEPT !.exhausted = (drain.out = drain.S)]
              ELSE [drain EXCEPT !.out = @ \o dest', !.calls = @ + 1,
                                 !.exhausted = (drain.out = drain.S)]
         ELSE NoDrain

\* trip: 1 after AppendData(S), S non-empty, on a buffer as constructed;
\* 2 after a SaveToFile that then returned SQ_OK; 3 after the destructor;
\* 4 after the constructor; 5 after LoadFromFile of the same path.
TripNext ==
    IF halted' THEN NoTrip
    ELSE IF op' = "AppendData" /\ m_data = NULL /\ m_size = 0 /\ m_readpos = 0
            /\ arg'.S # <<>>
    THEN [stage |-> 1, S |-> arg'.S]
    ELSE IF op' = "SaveToFile" /\ trip.stage = 1 /\ ret' = SQ_OK
    THEN [trip EXCEPT !.stage = 2]
    ELSE IF op' = "~Bytecode" /\ trip.stage = 2
    THEN [trip EXCEPT !.stage = 3]
    ELSE IF op' = "Bytecode" /\ trip.stage = 3
    THEN [trip EXCEPT !.stage = 4]
    ELSE IF op' = "LoadFromFile" /\ trip.stage = 4 /\ arg'.path = "f"
    THEN [trip EXCEPT !.stage = 5]
    ELSE NoTrip

\* fifo: on a buffer as constructed, the bytes the AppendData calls put in
\* and the bytes the ReadData calls handed out; any other operation ends the
\* record, and so does a step that follows a read of bytes never appended.
FifoNext ==
    IF op' = "Bytecode"
    THEN [NoFifo EXCEPT !.active = TRUE]
    ELSE IF ~fifo.active \/ halted' \/ Len(fifo.out) > Len(fifo.in)
    THEN NoFifo
    ELSE IF op' = "AppendData"
    THEN [fifo EXCEPT !.in = @ \o arg'.S]
    ELSE IF op' = "ReadData"
    THEN [fifo EXCEPT !.out = @ \o dest']
    ELSE NoFifo

Observe == drain' = DrainNext /\ trip' = TripNext /\ fifo' = FifoNext

\* a member function called on the object itself, through no adapter
Direct == call' = NoCall

\* ---- adapters ------------------------------------------------------------
SQIntegers == (0 - SizeMod \div 2) .. (SizeMod \div 2 - 1)

\* static_cast<size_t>(SQInteger)
ToSizeT(x) == x % SizeMod

\* a reader that would turn the sentinel into a count of 0
BytecodeReaderNoSentinel(size) ==
    /\ ReadData(ToSizeT(size))
    /\ call' = [f |-> "BytecodeReader", size |-> size, S |-> <<>>,
                ret |-> IF ret' = -1 THEN 0 ELSE ret']

BytecodeReader(size) ==
    /\ ReadData(ToSizeT(size))
    /\ call' = [f |-> "BytecodeReader", size |-> size, S |-> <<>>, ret |-> ret']

\* S: the caller's bytes, Len(S) the SQInteger size passed along with them
BytecodeWriter(S) ==
    /\ AppendData(Take(S, ToSizeT(Len(S))))
    /\ call' = [f |-> "BytecodeWriter", size |-> Len(S), S |-> S, ret |-> ret']

Next ==
    \/ \E n \in 0..(SizeMod - 1) : ReadData(n) /\ Observe /\ Direct
    \/ \E S \in SeqsUpTo(Byte, MaxLen) : SetData(S) /\ Observe /\ Direct
    \/ \E S \in SeqsUpTo(Byte, MaxLen) : AppendData(S) /\ Observe /\ Direct
    \/ \E path \in Paths : SaveToFile(path) /\ Observe /\ Direct
    \/ \E path \in Paths : LoadFromFile(path) /\ Observe /\ Direct
    \/ Destroy /\ Observe /\ Direct
    \/ Construct /\ Observe /\ Direct

Spec == Init /\ [][Next]_vars

\* the same buffer read and appended to through the adapters only
NextAdapters ==
    \/ \E size \in SQIntegers : BytecodeReader(size) /\ Observe
    \/ \E S \in SeqsUpTo(Byte, MaxLen) : BytecodeWriter(S) /\ Observe
    \/ \E S \in SeqsUpTo(Byte, MaxLen) : SetData(S) /\ Observe /\ Direct
    \/ \E path \in Paths : SaveToFile(path) /\ Observe /\ Direct
    \/ \E path \in Paths : LoadFromFile(path) /\ Observe /\ Direct
    \/ Destroy /\ Observe /\ Direct
    \/ Construct /\ Observe /\ Direct

SpecAdapters == Init /\ [][NextAdapters]_vars

\* ---- claims -------------------------------------------------------------
IsPrefix(s, t) == Len(s) <= Len(t) /\ s = Take(t, Len(s))

\* C1: in every reachable state the read cursor is at most the size.
C1_CursorWithinSize == alive => m_readpos <= m_size

\* C2: a LoadFromFile that returned SQ_OK leaves the size equal to the file
\* size, the content equal to the file's bytes and the read cursor at 0.
C2_LoadResetsCursor ==
    (op = "LoadFromFile" /\ ret = SQ_OK) =>
        /\ m_size = Len(file.bytes)
        /\ heap_live /\ heap = file.bytes
        /\ m_readpos = 0

\* C3: a ReadData(n) called with the cursor below the size returns
\* min(n, size - cursor), copies content[cursor .. cursor + returned) to the
\* destination and advances the cursor by the returned count.
C3_ReadReturnsMin ==
    [][(op' = "ReadData" /\ m_readpos < m_size) =>
          /\ ~halted'
          /\ ret' = Min(arg'.n, m_size - m_readpos)
          /\ m_readpos' = m_readpos + ret'
          /\ Len(dest') = ret'
          /\ ret' > 0 =>
                /\ heap_live /\ m_readpos + ret' <= Len(heap)
                /\ dest' = SubSeq(heap, m_readpos + 1, m_readpos + ret')]_vars

\* C4: ReadData returns -1 exactly when the buffer has no content or the
\* cursor has reached the end, and then changes nothing of the buffer; in
\* every other case it returns a count >= 0, which is 0 for a request of 0.
C4_SentinelExactly ==
    [][op' = "ReadData" =>
          LET nodata == m_data = NULL \/ m_size = 0 \/ m_readpos >= m_size IN
          /\ ~halted'
          /\ (ret' = -1) <=> nodata
          /\ nodata => UNCHANGED buffer
          /\ ~nodata => (ret' >= 0 /\ (arg'.n = 0 => ret' = 0))]_vars

\* C5: AppendData(S) returns Len(S), grows the size by Len(S), keeps the
\* stored bytes at their offsets and makes the last Len(S) bytes equal S.
C5_AppendExtends ==
    [][op' = "AppendData" =>
          /\ ~halted'
          /\ ret' = Len(arg'.S)
          /\ m_size' = m_size + Len(arg'.S)
          /\ Len(heap') = m_size'
          /\ heap' = heap \o arg'.S]_vars

\* C6: SetData(S), in whatever state it is called, returns SQ_OK and leaves
\* size Len(S), content S and the read cursor 0.
C6_SetReplaces ==
    op = "SetData" =>
        /\ ~halted
        /\ ret = SQ_OK
        /\ m_size = Len(arg.S)
        /\ heap = arg.S
        /\ m_readpos = 0

\* C7: after SetData(S), S non-empty, the chunks that ReadData calls of
\* positive size return concatenate to a prefix of S that the cursor has
\* consumed, at most Len(S) calls return data, and a call returns -1 exactly
\* once the whole of S has come out.
C7_DrainRoundTrip ==
    drain.active =>
        /\ ~halted
        /\ IsPrefix(drain.out, drain.S)
        /\ m_readpos = Len(drain.out)
        /\ drain.calls <= Len(drain.S)
        /\ op = "ReadData" => ((ret = -1) <=> drain.exhausted)
        /\ (op = "ReadData" /\ ret # -1) => (ret > 0 /\ ret = Len(dest))

\* C8: AppendData(S) on a buffer as constructed, a SaveToFile that returned
\* SQ_OK, then LoadFromFile of that path on a newly constructed buffer: the
\* file holds exactly S, and a load whose fread delivered the whole file
\* returns SQ_OK with size Len(S) and content S.
C8_FileRoundTrip ==
    /\ trip.stage >= 2 => (file.exists /\ file.bytes = trip.S)
    /\ trip.stage = 5 =>
          /\ io.opened
          /\ io.xfer = Len(trip.S) =>
                /\ ret = SQ_OK
                /\ Size = Len(trip.S)
                /\ Data # NULL /\ heap_live
                /\ heap = trip.S

C8_Witness ==
    /\ trip.stage = 5 /\ Len(trip.S) = MaxLen /\ io.xfer = Len(trip.S)
    /\ ret = SQ_OK /\ heap = trip.S

\* C9: LoadFromFile of a path that cannot be opened returns SQ_ERROR and
\* leaves the buffer empty: size 0 and no storage held.
C9_FailedLoadEmpties ==
    (op = "LoadFromFile" /\ ~CanOpenRead(arg.path)) =>
        /\ ~halted
        /\ ret = SQ_ERROR
        /\ Size = 0
        /\ Data = NULL /\ ~heap_live

\* C10: SaveToFile returns SQ_OK exactly when the buffer is non-empty, the
\* file could be opened for writing and fwrite wrote m_size bytes; on an
\* empty buffer it returns SQ_ERROR and neither opens nor writes the file.
C10_SaveStatus ==
    [][op' = "SaveToFile" =>
          /\ (ret' = SQ_OK) <=>
                /\ m_data # NULL /\ m_size > 0
                /\ CanOpenWrite(arg'.path)
                /\ io'.opened /\ io'.xfer = m_size
          /\ (m_data = NULL \/ m_size = 0) =>
                (ret' = SQ_ERROR /\ ~io'.opened /\ file' = file)]_vars

C10_Witness ==
    /\ op = "SaveToFile" /\ ret = SQ_OK
    /\ io.opened /\ io.xfer = m_size /\ m_size = MaxLen
    /\ file.bytes = heap

\* C11: in every reachable state of a constructed buffer, a size above 0 comes
\* with a non-null data pointer to storage the buffer still owns, of exactly
\* m_size bytes.
C11_SizedHasStorage ==
    (alive /\ m_size > 0) =>
        /\ m_data # NULL
        /\ heap_live
        /\ Len(heap) = m_size

\* C12: an AppendData step, whatever the buffer state and the bytes appended,
\* leaves the read cursor as it was.
C12_AppendKeepsCursor ==
    [][op' = "AppendData" => m_readpos' = m_readpos]_vars

C12_Witness ==
    /\ op = "AppendData" /\ ~halted /\ arg.S # <<>>
    /\ m_readpos > 0 /\ m_readpos < m_size

\* C13: between two content replacements the read cursor never goes back and
\* only ReadData moves it: an AppendData or SaveToFile step leaves it as it
\* was (Data and Size are the state functions above, which have no step), and
\* a ReadData step does not decrease it.
C13_CursorMonotone ==
    [][/\ op' \in {"AppendData", "SaveToFile"} => m_readpos' = m_readpos
       /\ op' = "ReadData" => m_readpos' >= m_readpos]_vars

C15_AdaptersForward ==
    [][/\ call'.f = "BytecodeReader" =>
             /\ ReadData(IF call'.size < 0 THEN call'.size + SizeMod
                                             ELSE call'.size)
             /\ call'.ret = ret'
       /\ call'.f = "BytecodeWriter" =>
             /\ AppendData(call'.S)
             /\ call'.ret = ret']_vars

C15_Witness ==
    /\ call.f = "BytecodeReader" /\ ~halted
    /\ m_size > 0 /\ m_readpos = m_size /\ call.ret = -1 /\ dest = <<>>

\* C16: no operation frees the block a second time or reads or reallocates it
\* once freed, and a constructed buffer holds no pointer to a block already
\* freed, in particular after a failing LoadFromFile.
C16_NoUseAfterFree ==
    /\ ub \notin {"double_free", "use_after_free"}
    /\ (alive /\ m_data # NULL) => heap_live

\* C17: on a buffer as constructed and used through AppendData and ReadData
\* only, the bytes read so far are a prefix of the bytes appended so far, the
\* cursor counts them, and a ReadData of positive size hands out nothing only
\* when every appended byte has been read, so that the read after a later
\* AppendData starts with the first new byte.
C17_FifoConsistent ==
    fifo.active =>
        /\ IsPrefix(fifo.out, fifo.in)
        /\ m_readpos = Len(fifo.out)
        /\ m_size = Len(fifo.in)
        /\ (op = "ReadData" /\ arg.n > 0 /\ dest = <<>>) =>
              (ret = -1 /\ fifo.out = fifo.in)

\* C18: a ReadData of any size 0 .. 2^W - 1 on live storage of m_size bytes,
\* with the cursor below the size, copies at most m_size - m_readpos bytes,
\* none of them from outside the storage, and leaves the cursor at most m_size.
C18_ReadWithinContent ==
    [][(/\ op' = "ReadData" /\ m_data # NULL /\ heap_live
        /\ Len(heap) = m_size /\ m_readpos < m_size) =>
          /\ ~halted' /\ ub' = "none"
          /\ Len(dest') <= m_size - m_readpos
          /\ m_readpos' <= m_size]_vars

\* C19: a SaveToFile step, whether it returns SQ_OK or SQ_ERROR or stops,
\* leaves the data pointer, the stored bytes, the size and the read cursor as
\* they were.
C19_SaveKeepsBuffer ==
    [][op' = "SaveToFile" => UNCHANGED buffer]_vars

C19_Witness ==
    /\ op = "SaveToFile" /\ ret = SQ_OK /\ io.xfer = m_size
    /\ m_readpos > 0 /\ m_readpos < m_size /\ heap_live /\ Len(heap) = m_size
====
